---- MODULE Spec2Model ----
(***************************************************************************)
(* Model of src/analisis_desarrollo_Version2.py: the ProyectoSoftware      *)
(* dataclass, its lifecycle and requirement operations, and its JSON       *)
(* export / import.                                                        *)
(*                                                                         *)
(* Strings are sequences of one-character strings, so that str.strip(),    *)
(* str.lower(), re.sub(), date.isoformat() and date.fromisoformat() are    *)
(* computed character by character.  None is the empty tuple where the     *)
(* source has an Optional value.  A date is <<year, month, day>>.          *)
(***************************************************************************)
EXTENDS Integers, Sequences, FiniteSets, TLC

VARIABLES proyecto, fs, res

vars == <<proyecto, fs, res>>

(***************************************************************************)
(* Bounds of the model.                                                    *)
(***************************************************************************)
MaxPad == 1      \* most blanks on either side of a requirement text
MaxIni == 1      \* longest requirements list given to the constructor

(***************************************************************************)
(* Python's None for the Optional fields and arguments.                    *)
(***************************************************************************)
None == <<>>

(***************************************************************************)
(* str.strip() and str.lower()                                             *)
(***************************************************************************)
EsEspacio(c) == c \in {" ", "\t", "\n"}

Mayusculas == <<"A", "B", "C", "D", "E", "I", "L", "M", "N", "O", "P", "R",
                "S", "T", "U", "Z", "Á", "Ñ", "Ó">>

Minusculas == <<"a", "b", "c", "d", "e", "i", "l", "m", "n", "o", "p", "r",
                "s", "t", "u", "z", "á", "ñ", "ó">>

minuscula(c) ==
    IF \E i \in 1..Len(Mayusculas) : Mayusculas[i] = c
    THEN Minusculas[CHOOSE i \in 1..Len(Mayusculas) : Mayusculas[i] = c]
    ELSE c

RECURSIVE lower(_)
lower(s) == IF s = <<>> THEN <<>> ELSE <<minuscula(Head(s))>> \o lower(Tail(s))

RECURSIVE lstrip(_)
lstrip(s) ==
    IF s = <<>> THEN <<>>
    ELSE IF EsEspacio(Head(s)) THEN lstrip(Tail(s)) ELSE s

RECURSIVE rstrip(_)
rstrip(s) ==
    IF s = <<>> THEN <<>>
    ELSE IF EsEspacio(s[Len(s)]) THEN rstrip(SubSeq(s, 1, Len(s) - 1)) ELSE s

strip(s) == rstrip(lstrip(s))

(***************************************************************************)
(* The lifecycle, ProyectoSoftware.CICLO_VIDA.                             *)
(***************************************************************************)
CICLO_VIDA ==
    << <<"a", "n", "á", "l", "i", "s", "i", "s">>,
       <<"d", "i", "s", "e", "ñ", "o">>,
       <<"d", "e", "s", "a", "r", "r", "o", "l", "l", "o">>,
       <<"p", "r", "u", "e", "b", "a", "s">>,
       <<"i", "m", "p", "l", "e", "m", "e", "n", "t", "a", "c", "i", "ó", "n">>,
       <<"m", "a", "n", "t", "e", "n", "i", "m", "i", "e", "n", "t", "o">> >>

\* `x in list`
Contiene(lista, x) == \E i \in 1..Len(lista) : lista[i] = x

\* index counted from 1
index_desde_uno(lista, x) ==
    CHOOSE i \in 1..Len(lista) :
        /\ lista[i] = x
        /\ \A j \in 1..(i - 1) : lista[j] # x

\* list.index(x), 0-based, for an x the list contains
index(lista, x) ==
    (CHOOSE i \in 1..Len(lista) :
        /\ lista[i] = x
        /\ \A j \in 1..(i - 1) : lista[j] # x) - 1

\* the element before the one asked for
Elem_anterior(lista, i) == lista[i]

\* the element at a 0-based index
Elem(lista, i) == lista[i + 1]

(***************************************************************************)
(* Python values whose type the code does not fix: <<"str", chars>>,       *)
(* <<"None">> and <<"int", digits>>.  Truthy is what `x or default` tests.  *)
(***************************************************************************)
PyStr(s) == <<"str", s>>
PyNone == <<"None">>
PyInt(digitos) == <<"int", digitos>>

Truthy(v) ==
    CASE v[1] = "None" -> FALSE
      [] v[1] = "str"  -> v[2] # <<>>
      [] v[1] = "int"  -> v[2] # <<"0">>
      [] v[1] = "list" -> v[2] # <<>>

(***************************************************************************)
(* datetime.date: isoformat(), and the calendar fromisoformat() validates. *)
(***************************************************************************)
Digitos == <<"0", "1", "2", "3", "4", "5", "6", "7", "8", "9">>

EsDigito(c) == \E i \in 1..10 : Digitos[i] = c

ValorDigito(c) == (CHOOSE i \in 1..10 : Digitos[i] = c) - 1

\* no zero padding
Dos_sin_cero(n) == IF n < 10 THEN <<Digitos[n + 1]>>
                   ELSE <<Digitos[(n \div 10) + 1], Digitos[(n % 10) + 1]>>

Dos(n) == <<Digitos[(n \div 10) + 1], Digitos[(n % 10) + 1]>>

Cuatro(n) == Dos(n \div 100) \o Dos(n % 100)

isoformat(f) == Cuatro(f[1]) \o <<"-">> \o Dos(f[2]) \o <<"-">> \o Dos(f[3])

Bisiesto(y) == (y % 4 = 0 /\ y % 100 # 0) \/ y % 400 = 0

DiasDelMes(y, m) ==
    IF m = 2 THEN (IF Bisiesto(y) THEN 29 ELSE 28)
    ELSE IF m \in {4, 6, 9, 11} THEN 30 ELSE 31

FechaValida(y, m, d) ==
    /\ y \in 1..9999
    /\ m \in 1..12
    /\ d \in 1..DiasDelMes(y, m)

\* the dates date.today() may return at a call
Hoy == {<<2024, 2, 29>>, <<2026, 11, 4>>}

(***************************************************************************)
(* ProyectoSoftware.__post_init__: the record a constructor call yields.   *)
(* fase_actual is a Python value; a truthy value that is not a str has no  *)
(* strip() and the constructor raises AttributeError.  hoy is the value of *)
(* date.today() at the call.                                               *)
(***************************************************************************)
post_init_error(fase_actual) ==
    IF Truthy(fase_actual) /\ fase_actual[1] # "str" THEN "AttributeError" ELSE ""

NormalizarFase(fase_actual) ==
    LET dada == IF Truthy(fase_actual) THEN fase_actual[2] ELSE CICLO_VIDA[1]
        n    == lower(strip(dada))
    IN  IF Contiene(CICLO_VIDA, n) THEN n ELSE CICLO_VIDA[1]

post_init(nombre, descripcion, requerimientos, fase_actual, equipo, fecha_inicio, fecha_fin_estimada, hoy) ==
    [nombre             |-> nombre,
     descripcion        |-> descripcion,
     requerimientos     |-> IF requerimientos = None THEN <<>> ELSE requerimientos,
     fase_actual        |-> NormalizarFase(fase_actual),
     equipo             |-> IF equipo = None THEN <<>> ELSE equipo,
     fecha_inicio       |-> IF fecha_inicio = None THEN hoy ELSE fecha_inicio,
     fecha_fin_estimada |-> fecha_fin_estimada]

(***************************************************************************)
(* The outcome of the last call: the method, its arguments, the exception  *)
(* it raised ("" when it returned) and the value it returned.              *)
(***************************************************************************)
Resultado(op, arg, err, ret) == [op |-> op, arg |-> arg, err |-> err, ret |-> ret]

(***************************************************************************)
(* ProyectoSoftware.avanzar_fase                                           *)
(***************************************************************************)
avanzar_fase ==
    LET conocida == Contiene(CICLO_VIDA, proyecto.fase_actual)
        idx      == IF conocida THEN index(CICLO_VIDA, proyecto.fase_actual) ELSE 0
        self     == IF conocida THEN proyecto
                    ELSE [proyecto EXCEPT !.fase_actual = CICLO_VIDA[1]]
    IN  /\ IF idx < Len(CICLO_VIDA) - 1
           THEN /\ proyecto' = [self EXCEPT !.fase_actual = Elem(CICLO_VIDA, idx + 1)]
                /\ res' = Resultado("avanzar_fase", <<>>, "", <<TRUE>>)
           ELSE /\ proyecto' = self
                /\ res' = Resultado("avanzar_fase", <<>>, "", <<FALSE>>)
        /\ UNCHANGED fs

(***************************************************************************)
(* ProyectoSoftware.agregar_requerimiento                                  *)
(***************************************************************************)
\* only the empty text is rejected
EsVacio_sin_strip(texto) == texto = <<>>

EsVacio(texto) == texto = <<>> \/ strip(texto) = <<>>

\* comparison that distinguishes case
Existe_exacta(requerimientos, req_clean) ==
    \E i \in 1..Len(requerimientos) : strip(requerimientos[i]) = req_clean

\* comparison that does not trim the stored entry
Existe_sin_strip(requerimientos, req_clean) ==
    \E i \in 1..Len(requerimientos) :
        lower(requerimientos[i]) = lower(req_clean)

Existe(requerimientos, req_clean) ==
    \E i \in 1..Len(requerimientos) :
        lower(strip(requerimientos[i])) = lower(req_clean)

agregar_requerimiento(nuevo_requerimiento) ==
    LET req_clean == strip(nuevo_requerimiento)
    IN  /\ UNCHANGED fs
        /\ IF EsVacio(nuevo_requerimiento)
           THEN /\ res' = Resultado("agregar_requerimiento", nuevo_requerimiento,
                                    "ValueError", <<>>)
                /\ UNCHANGED proyecto
           ELSE IF Existe(proyecto.requerimientos, req_clean)
           THEN /\ res' = Resultado("agregar_requerimiento", nuevo_requerimiento,
                                    "", <<>>)
                /\ UNCHANGED proyecto
           ELSE /\ res' = Resultado("agregar_requerimiento", nuevo_requerimiento,
                                    "", <<>>)
                /\ proyecto' = [proyecto EXCEPT !.requerimientos =
                                    Append(proyecto.requerimientos, req_clean)]

(***************************************************************************)
(* ProyectoSoftware.resumen_progreso.  The source divides and multiplies   *)
(* in floating point and truncates with int(); the model carries the       *)
(* quotient as a binary fraction of Mantisa bits, rounded to nearest even. *)
(***************************************************************************)
Mantisa == 2 ^ 20

Cociente(a, b) ==
    LET q == (a * Mantisa) \div b
        r == (a * Mantisa) % b
    IN  IF 2 * r > b \/ (2 * r = b /\ q % 2 = 1) THEN q + 1 ELSE q

\* round() in place of int()
Redondear(x) == (2 * x + Mantisa) \div (2 * Mantisa)

Truncar(x) == x \div Mantisa

progreso_de(self) ==
    LET idx   == IF Contiene(CICLO_VIDA, self.fase_actual)
                 THEN index(CICLO_VIDA, self.fase_actual) ELSE 0
        total == Len(CICLO_VIDA)
    IN  Truncar(Cociente(idx + 1, total) * 100)

resumen_progreso ==
    /\ res' = Resultado("resumen_progreso", <<>>, "", <<progreso_de(proyecto)>>)
    /\ UNCHANGED <<proyecto, fs>>

(***************************************************************************)
(* ProyectoSoftware.mostrar_info: the lines it prints, as the values       *)
(* interpolated into them.                                                 *)
(***************************************************************************)
NoDefinida == <<"N", "o", " ", "d", "e", "f", "i", "n", "i", "d", "a">>
NoAsignado == <<"N", "o", " ", "a", "s", "i", "g", "n", "a", "d", "o">>

RECURSIVE join(_, _)
join(sep, lista) ==
    IF lista = <<>> THEN <<>>
    ELSE IF Len(lista) = 1 THEN lista[1]
    ELSE lista[1] \o sep \o join(sep, Tail(lista))

Lineas(self) ==
    << self.nombre,
       self.descripcion,
       self.fase_actual,
       IF self.fecha_inicio # None THEN isoformat(self.fecha_inicio) ELSE NoDefinida,
       IF self.fecha_fin_estimada # None
           THEN isoformat(self.fecha_fin_estimada) ELSE NoDefinida,
       <<Len(self.equipo)>>,
       IF self.equipo # <<>> THEN join(<<",", " ">>, self.equipo) ELSE NoAsignado,
       <<Len(self.requerimientos)>>,
       [i \in 1..Len(self.requerimientos) |-> <<i, self.requerimientos[i]>>],
       <<progreso_de(self)>> >>

mostrar_info ==
    /\ res' = Resultado("mostrar_info", <<>>, "", Lineas(proyecto))
    /\ UNCHANGED <<proyecto, fs>>

(***************************************************************************)
(* JSON.  A JSON value is <<"string", chars>>, <<"null">>,                 *)
(* <<"number", digits>> or <<"array", strings>>; a JSON object is a record *)
(* over Claves whose absent keys hold Ausente.  json_dump and json_load    *)
(* convert between Python values and JSON values.                          *)
(***************************************************************************)
Ausente == <<>>

RECURSIVE Decimal(_)
Decimal(n) == IF n < 10 THEN <<Digitos[n + 1]>>
              ELSE Decimal(n \div 10) \o <<Digitos[(n % 10) + 1]>>

json_dump(v) ==
    CASE v[1] = "str"  -> <<"string", v[2]>>
      [] v[1] = "None" -> <<"null">>
      [] v[1] = "int"  -> <<"number", v[2]>>
      [] v[1] = "list" -> <<"array", v[2]>>

json_load(j) ==
    CASE j[1] = "string" -> <<"str", j[2]>>
      [] j[1] = "null"   -> <<"None">>
      [] j[1] = "number" -> <<"int", j[2]>>
      [] j[1] = "array"  -> <<"list", j[2]>>

\* dict.get(clave, defecto) on the loaded object; defecto is a Python value
get(raw, clave, defecto) ==
    IF raw[clave] = Ausente THEN defecto ELSE json_load(raw[clave])

(***************************************************************************)
(* The file system: fs maps the absolute path of every existing file to    *)
(* its content, <<"objeto", o>> for the text of a JSON object o,           *)
(* <<"arreglo">> for valid JSON that is not an object, and <<"texto">> for *)
(* text that is not JSON.                                                  *)
(***************************************************************************)
Cwd == <<"/", "w">>

abspath(ruta) == IF ruta # <<>> /\ ruta[1] = "/" THEN ruta ELSE Cwd \o <<"/">> \o ruta

exists(ruta) == abspath(ruta) \in DOMAIN fs

(***************************************************************************)
(* ProyectoSoftware.exportar_json                                          *)
(***************************************************************************)
fecha_a_iso(f) == IF f # None THEN PyStr(isoformat(f)) ELSE PyNone

data(self) ==
    [nombre              |-> json_dump(PyStr(self.nombre)),
     descripcion         |-> json_dump(PyStr(self.descripcion)),
     requerimientos      |-> json_dump(<<"list", self.requerimientos>>),
     fase_actual         |-> json_dump(PyStr(self.fase_actual)),
     equipo              |-> json_dump(<<"list", self.equipo>>),
     fecha_inicio        |-> json_dump(fecha_a_iso(self.fecha_inicio)),
     fecha_fin_estimada  |-> json_dump(fecha_a_iso(self.fecha_fin_estimada)),
     ciclo_vida          |-> json_dump(<<"list", CICLO_VIDA>>),
     progreso_aproximado |-> json_dump(PyInt(Decimal(progreso_de(self))))]

LetrasAscii ==
    {"a", "b", "c", "d", "e", "f", "g", "h", "i", "j", "k", "l", "m", "n", "o",
     "p", "q", "r", "s", "t", "u", "v", "w", "x", "y", "z",
     "A", "B", "C", "D", "E", "F", "G", "H", "I", "J", "K", "L", "M", "N", "O",
     "P", "Q", "R", "S", "T", "U", "V", "W", "X", "Y", "Z"}

\* a character the class [^0-9a-zA-Z-_] does not match
EsSeguro(c) == EsDigito(c) \/ c \in LetrasAscii \/ c \in {"-", "_"}

RECURSIVE SinPrefijoInseguro(_)
SinPrefijoInseguro(s) ==
    IF s = <<>> THEN <<>>
    ELSE IF EsSeguro(Head(s)) THEN s ELSE SinPrefijoInseguro(Tail(s))

\* re.sub(r"[^0-9a-zA-Z-_]+", "_", s)
RECURSIVE sub(_)
sub(s) ==
    IF s = <<>> THEN <<>>
    ELSE IF EsSeguro(Head(s)) THEN <<Head(s)>> \o sub(Tail(s))
    ELSE <<"_">> \o sub(SinPrefijoInseguro(s))

Sufijo == <<"_", "p", "r", "o", "y", "e", "c", "t", "o", ".", "j", "s", "o", "n">>

\* the existence test applied whatever sobrescribir is
exportar_json_sin_bandera(ruta, sobrescribir) ==
    LET name_safe == sub(strip(proyecto.nombre))
        destino   == IF ruta = None THEN name_safe \o Sufijo ELSE ruta
        abs_path  == abspath(destino)
    IN  /\ UNCHANGED proyecto
        /\ IF abs_path \in DOMAIN fs
           THEN /\ res' = Resultado("exportar_json", <<ruta, sobrescribir>>,
                                    "FileExistsError", <<>>)
                /\ UNCHANGED fs
           ELSE /\ fs' = [r \in DOMAIN fs \cup {abs_path} |->
                             IF r = abs_path THEN <<"objeto", data(proyecto)>>
                             ELSE fs[r]]
                /\ res' = Resultado("exportar_json", <<ruta, sobrescribir>>,
                                    "", abs_path)

exportar_json(ruta, sobrescribir) ==
    LET name_safe == sub(strip(proyecto.nombre))
        destino   == IF ruta = None THEN name_safe \o Sufijo ELSE ruta
        abs_path  == abspath(destino)
    IN  /\ UNCHANGED proyecto
        /\ IF ~sobrescribir /\ abs_path \in DOMAIN fs
           THEN /\ res' = Resultado("exportar_json", <<ruta, sobrescribir>>,
                                    "FileExistsError", <<>>)
                /\ UNCHANGED fs
           ELSE /\ fs' = [r \in DOMAIN fs \cup {abs_path} |->
                             IF r = abs_path THEN <<"objeto", data(proyecto)>>
                             ELSE fs[r]]
                /\ res' = Resultado("exportar_json", <<ruta, sobrescribir>>,
                                    "", abs_path)

(***************************************************************************)
(* ProyectoSoftware.cargar_json                                            *)
(***************************************************************************)
Numero2(s, i) == ValorDigito(s[i]) * 10 + ValorDigito(s[i + 1])

\* date.fromisoformat(value) for the documented form YYYY-MM-DD; None when
\* it raises
date_fromisoformat(value) ==
    IF /\ Len(value) = 10
       /\ value[5] = "-"
       /\ value[8] = "-"
       /\ \A i \in {1, 2, 3, 4, 6, 7, 9, 10} : EsDigito(value[i])
    THEN LET y == Numero2(value, 1) * 100 + Numero2(value, 3)
             m == Numero2(value, 6)
             d == Numero2(value, 9)
         IN  IF FechaValida(y, m, d) THEN <<y, m, d>> ELSE None
    ELSE None

\* the time part HH, HH:MM or HH:MM:SS
HoraValida(t) ==
    /\ Len(t) \in {2, 5, 8}
    /\ \A i \in 1..Len(t) : IF i \in {3, 6} THEN t[i] = ":" ELSE EsDigito(t[i])
    /\ Numero2(t, 1) < 24
    /\ Len(t) >= 5 => Numero2(t, 4) < 60
    /\ Len(t) >= 8 => Numero2(t, 7) < 60

\* datetime.fromisoformat(value).date(): a date, one separator character
\* and a time; None when it raises
datetime_fromisoformat(value) ==
    IF Len(value) = 10 THEN date_fromisoformat(value)
    ELSE IF Len(value) > 11 /\ HoraValida(SubSeq(value, 12, Len(value)))
    THEN date_fromisoformat(SubSeq(value, 1, 10))
    ELSE None

\* the helper iso_a_fecha; value is a Python value
iso_a_fecha(value) ==
    IF value[1] = "None" THEN None
    ELSE IF value[1] # "str" \/ strip(value[2]) = <<>> THEN None
    ELSE IF date_fromisoformat(value[2]) # None THEN date_fromisoformat(value[2])
    ELSE datetime_fromisoformat(value[2])

SinNombre == <<"P", "r", "o", "y", "e", "c", "t", "o", " ", "s", "i", "n", " ",
               "n", "o", "m", "b", "r", "e">>

\* `raw.get(clave) or []`, then list(...): a str yields its characters and
\* a non-zero int raises TypeError
ListaDe(raw, clave) ==
    LET v == get(raw, clave, PyNone)
    IN  IF ~Truthy(v) THEN <<>>
        ELSE IF v[1] = "str" THEN [i \in 1..Len(v[2]) |-> <<v[2][i]>>]
        ELSE v[2]

ListaError(raw, clave) ==
    LET v == get(raw, clave, PyNone)
    IN  IF Truthy(v) /\ v[1] = "int" THEN "TypeError" ELSE ""

\* a parser that takes any text for a JSON value
ErrorDeLectura_laxa(ruta) ==
    IF ~exists(ruta) THEN "FileNotFoundError"
    ELSE IF fs[abspath(ruta)][1] # "objeto" THEN "AttributeError"
    ELSE ""

\* the exception raised before any member is read: the existence test,
\* json.load, and the first raw.get on a value that is not an object
ErrorDeLectura(ruta) ==
    IF ~exists(ruta) THEN "FileNotFoundError"
    ELSE IF fs[abspath(ruta)][1] = "texto" THEN "JSONDecodeError"
    ELSE IF fs[abspath(ruta)][1] # "objeto" THEN "AttributeError"
    ELSE ""

cargar_json(ruta) ==
    /\ UNCHANGED fs
    /\ IF ErrorDeLectura(ruta) # ""
       THEN /\ res' = Resultado("cargar_json", ruta, ErrorDeLectura(ruta), <<>>)
            /\ UNCHANGED proyecto
       ELSE LET raw          == fs[abspath(ruta)][2]
                nombre       == get(raw, "nombre", PyStr(SinNombre))[2]
                descripcion  == get(raw, "descripcion", PyStr(<<>>))[2]
                fase_actual  == get(raw, "fase_actual", PyStr(CICLO_VIDA[1]))
                fecha_inicio == iso_a_fecha(get(raw, "fecha_inicio", PyNone))
                fecha_fin_estimada ==
                    iso_a_fecha(get(raw, "fecha_fin_estimada", PyNone))
                error == IF ListaError(raw, "requerimientos") # ""
                         THEN ListaError(raw, "requerimientos")
                         ELSE IF ListaError(raw, "equipo") # ""
                         THEN ListaError(raw, "equipo")
                         ELSE post_init_error(fase_actual)
            IN  IF error # ""
                THEN /\ res' = Resultado("cargar_json", ruta, error, <<>>)
                     /\ UNCHANGED proyecto
                ELSE \E hoy \in Hoy :
                     /\ proyecto' =
                          post_init(nombre, descripcion,
                                    ListaDe(raw, "requerimientos"), fase_actual,
                                    ListaDe(raw, "equipo"),
                                    fecha_inicio, fecha_fin_estimada, hoy)
                     /\ res' = Resultado("cargar_json", ruta, "", <<>>)

(***************************************************************************)
(* Inputs.                                                                 *)
(***************************************************************************)
Nombre == <<"S", ".", " ", "G">>
Descripcion == <<"g", "e", "s", "t", "i", "ó", "n">>
Equipo == << <<"A", "n", "a">>, <<"J", "o", "s", "é">> >>
Inicio == <<2024, 2, 29>>
Fin == <<2026, 4, 30>>

Login == <<"L", "o", "g", "i", "n">>
login == <<" ", " ", "l", "o", "g", "i", "n", " ", " ">>
Pago == <<"P", "a", "g", "o">>

\* requirement texts the calls of the full specification pass
Textos == {<<>>, <<" ", " ", " ">>, Login, login, Pago}

\* every text made of nothing or of a word, a letter in either case or
\* another letter, with at most MaxPad blanks on each side
Blancos(n) == [i \in 1..n |-> " "]
Palabras == {<<>>, <<"a">>, <<"A">>, <<"b">>}
Cadenas == {Blancos(i) \o w \o Blancos(j) : w \in Palabras, i \in 0..MaxPad, j \in 0..MaxPad}

\* entries of a list given to the constructor: blank, padded on the left,
\* on the right and on both sides
Guardadas == {<<>>, <<" ", "a">>, <<"A", " ">>, <<" ", "b", " ">>}

\* every list of at most MaxIni such entries
Listas == UNION {[1..k -> Guardadas] : k \in 0..MaxIni}

\* phase values a constructor call or a JSON file supplies
FasesDadas ==
    {PyNone, PyStr(<<>>), PyStr(<<" ", " ">>), PyInt(<<"0">>), PyInt(<<"5">>),
     PyStr(<<"z", "z", "z">>),
     PyStr(<<" ", "D", "I", "S", "E", "Ñ", "O", " ">>),
     PyStr(<<"P", "r", "u", "e", "b", "a", "s">>)}
    \cup {PyStr(CICLO_VIDA[i]) : i \in 1..Len(CICLO_VIDA)}

ArchivoDefecto == sub(strip(Nombre)) \o Sufijo
RutaAbsoluta == abspath(ArchivoDefecto)
OtraRuta == <<"x", ".", "j", "s", "o", "n">>

\* a JSON object as a file holds it
Objeto(nombre, requerimientos, fase_actual, fecha_inicio, fecha_fin_estimada) ==
    [nombre              |-> nombre,
     descripcion         |-> Ausente,
     requerimientos      |-> requerimientos,
     fase_actual         |-> fase_actual,
     equipo              |-> Ausente,
     fecha_inicio        |-> fecha_inicio,
     fecha_fin_estimada  |-> fecha_fin_estimada,
     ciclo_vida          |-> Ausente,
     progreso_aproximado |-> Ausente]

ConHora == isoformat(Inicio) \o <<"T", "1", "0", ":", "3", "0">>
MesTrece == <<"2", "0", "2", "5", "-", "1", "3", "-", "0", "1">>

\* files written by hand: each phase value, and objects with missing,
\* null, duplicated and unparseable members
Objetos ==
    {Objeto(json_dump(PyStr(Nombre)), Ausente, json_dump(f), Ausente, Ausente) :
        f \in FasesDadas}
    \cup {Objeto(json_dump(PyStr(Nombre)), Ausente, Ausente, Ausente, Ausente),
          Objeto(json_dump(PyStr(Nombre)), <<"null">>, Ausente, <<"null">>,
                 <<"number", <<"7">>>>),
          Objeto(json_dump(PyStr(Nombre)), <<"array", <<Login, login>>>>,
                 Ausente, <<"string", ConHora>>, <<"string", MesTrece>>),
          Objeto(json_dump(PyStr(Nombre)), <<"number", <<"7">>>>,
                 Ausente, Ausente, Ausente)}

Contenidos == {<<"texto">>, <<"arreglo">>} \cup {<<"objeto", o>> : o \in Objetos}

(***************************************************************************)
(* Init: the state after a constructor call that returned.                 *)
(***************************************************************************)
Init ==
    /\ \E requerimientos \in {None, <<Login>>},
          fase_actual \in FasesDadas,
          fecha_inicio \in {None, Inicio},
          fecha_fin_estimada \in {None, Fin},
          hoy \in Hoy :
          /\ post_init_error(fase_actual) = ""
          /\ proyecto = post_init(Nombre, Descripcion, requerimientos, fase_actual,
                                  Equipo, fecha_inicio, fecha_fin_estimada, hoy)
    /\ \/ fs = <<>>
       \/ \E c \in Contenidos : fs = (RutaAbsoluta :> c)
    /\ res = Resultado("__init__", <<>>, "", <<>>)

Next ==
    \/ avanzar_fase
    \/ \E t \in Textos : agregar_requerimiento(t)
    \/ resumen_progreso
    \/ mostrar_info
    \/ \E ruta \in {None, RutaAbsoluta}, sobrescribir \in BOOLEAN :
          exportar_json(ruta, sobrescribir)
    \/ \E ruta \in {ArchivoDefecto, RutaAbsoluta, OtraRuta} : cargar_json(ruta)

Spec == Init /\ [][Next]_vars

(***************************************************************************)
(* The operations on one record, without reloading it, with AdvancePhase   *)
(* called again and again.                                                 *)
(***************************************************************************)
NextVida ==
    \/ avanzar_fase
    \/ \E t \in Textos : agregar_requerimiento(t)
    \/ resumen_progreso
    \/ mostrar_info
    \/ \E ruta \in {None, RutaAbsoluta}, sobrescribir \in BOOLEAN :
          exportar_json(ruta, sobrescribir)

SpecVida == Init /\ [][NextVida]_vars /\ WF_vars(avanzar_fase)

(***************************************************************************)
(* The record operations over every requirements list and every text       *)
(* within the bounds.                                                      *)
(***************************************************************************)
InitReq ==
    /\ \E requerimientos \in Listas, fase_actual \in FasesDadas :
          /\ post_init_error(fase_actual) = ""
          /\ proyecto = post_init(Nombre, Descripcion, requerimientos, fase_actual,
                                  Equipo, Inicio, None, Inicio)
    /\ fs = <<>>
    /\ res = Resultado("__init__", <<>>, "", <<>>)

NextReq ==
    \/ avanzar_fase
    \/ \E t \in Cadenas : agregar_requerimiento(t)
    \/ resumen_progreso
    \/ mostrar_info

SpecReq == InitReq /\ [][NextReq]_vars

(***************************************************************************)
(* Properties.                                                             *)
(***************************************************************************)

\* the 0-based position of a phase in the lifecycle
Posicion(fase) == (CHOOSE i \in 1..6 : CICLO_VIDA[i] = fase) - 1

Ultima == CICLO_VIDA[6]

\* no two entries equal after trimming and lowercasing
SinDuplicados(lista) ==
    \A i, j \in 1..Len(lista) :
        i # j => lower(strip(lista[i])) # lower(strip(lista[j]))

\* empty or only whitespace
EnBlanco(texto) == \A i \in 1..Len(texto) : texto[i] \in {" ", "\t", "\n"}

\* C2 as stated: in every reachable state of a record, requirements holds
\* no two entries that are equal after trimming and lowercasing.
C2_SinDuplicadosSiempre == SinDuplicados(proyecto.requerimientos)

\* C2 as amended: no call of AddRequirement or AdvancePhase introduces a
\* duplicate: when requirements holds no two entries equal after trimming
\* and lowercasing before the call, it holds none after it.  The constructor
\* and the load store the list they are given, duplicates included.
C2_NoIntroduceDuplicados ==
    [][(/\ res'.op # "cargar_json"
        /\ proyecto'.requerimientos # proyecto.requerimientos
        /\ SinDuplicados(proyecto.requerimientos))
       => SinDuplicados(proyecto'.requerimientos)]_vars

C2_Testigo ==
    /\ res.op = "agregar_requerimiento"
    /\ res.err = ""
    /\ Len(proyecto.requerimientos) = 2
    /\ proyecto.requerimientos[2] = strip(res.arg)
    /\ SinDuplicados(proyecto.requerimientos)

\* C3: AdvancePhase on a record at lifecycle index i < 5 sets currentPhase
\* to the phase at index i+1 and returns true; at index 5 it returns false
\* and leaves the whole record unchanged.
C3_AvanzarFase ==
    [][res'.op = "avanzar_fase" =>
          LET i == Posicion(proyecto.fase_actual)
          IN  IF i < 5
              THEN /\ proyecto' = [proyecto EXCEPT !.fase_actual = CICLO_VIDA[i + 2]]
                   /\ res'.err = ""
                   /\ res'.ret = <<TRUE>>
              ELSE /\ proyecto' = proyecto
                   /\ fs' = fs
                   /\ res'.err = ""
                   /\ res'.ret = <<FALSE>>]_vars

C3_Testigo ==
    /\ res.op = "avanzar_fase"
    /\ res.ret = <<FALSE>>
    /\ proyecto.fase_actual = Ultima

\* C4: AddRequirement with a text that is empty or only whitespace fails
\* with ValueError (InvalidArgument) and leaves requirements and the rest
\* of the record as they were.
C4_TextoEnBlanco ==
    [][(res'.op = "agregar_requerimiento" /\ EnBlanco(res'.arg)) =>
          /\ res'.err = "ValueError"
          /\ proyecto' = proyecto
          /\ fs' = fs]_vars

C4_Testigo ==
    /\ res.op = "agregar_requerimiento"
    /\ res.arg = <<" ", " ">>
    /\ res.err = "ValueError"
    /\ Len(proyecto.requerimientos) = 1

\* C5 as stated: AddRequirement with a non-blank text changes nothing and
\* raises no error if an existing requirement equals the trimmed text under
\* case-insensitive comparison; otherwise it appends the trimmed text as the
\* last element and keeps the stored requirements and their order.
C5_ComparaSinRecortar ==
    [][(res'.op = "agregar_requerimiento" /\ ~EnBlanco(res'.arg)) =>
          /\ res'.err = ""
          /\ IF \E i \in 1..Len(proyecto.requerimientos) :
                   lower(proyecto.requerimientos[i]) = lower(strip(res'.arg))
             THEN proyecto' = proyecto
             ELSE proyecto' = [proyecto EXCEPT !.requerimientos =
                                  Append(proyecto.requerimientos, strip(res'.arg))]]_vars

\* C5 as amended: the existing requirement is trimmed too before the
\* case-insensitive comparison: the call changes nothing and raises no error
\* if an existing requirement, trimmed, equals the trimmed text ignoring
\* case; otherwise it appends the trimmed text as the last element and keeps
\* the stored requirements and their order.
C5_AgregarRequerimiento ==
    [][(res'.op = "agregar_requerimiento" /\ ~EnBlanco(res'.arg)) =>
          LET recortado == strip(res'.arg)
              clave     == lower(recortado)
          IN  /\ res'.err = ""
              /\ fs' = fs
              /\ IF \E i \in 1..Len(proyecto.requerimientos) :
                       lower(strip(proyecto.requerimientos[i])) = clave
                 THEN proyecto' = proyecto
                 ELSE proyecto' = [proyecto EXCEPT !.requerimientos =
                                      Append(proyecto.requerimientos, recortado)]]_vars

C5_Testigo ==
    /\ res.op = "agregar_requerimiento"
    /\ res.arg = <<" ", "A">>
    /\ res.err = ""
    /\ proyecto.requerimientos = << <<"a">> >>

\* C6: ProgressPercentage returns floor((index+1)*100/6), that is 16, 33,
\* 50, 66, 83, 100 for the indices 0..5, a value in [16, 100], and the call
\* changes no record state.
C6_Progreso ==
    [][res'.op = "resumen_progreso" =>
          LET i == Posicion(proyecto.fase_actual)
          IN  /\ res'.err = ""
              /\ res'.ret = <<((i + 1) * 100) \div 6>>
              /\ res'.ret = << <<16, 33, 50, 66, 83, 100>>[i + 1] >>
              /\ res'.ret[1] \in 16..100
              /\ proyecto' = proyecto
              /\ fs' = fs]_vars

C6_Testigo ==
    /\ res.op = "resumen_progreso"
    /\ res.ret = <<66>>
    /\ Posicion(proyecto.fase_actual) = 3

\* a phase value of a JSON object that is missing or is not, once trimmed
\* and lowercased, a lifecycle phase
FaseInvalida(j) ==
    \/ j = Ausente
    \/ j[1] # "string"
    \/ \A i \in 1..6 : CICLO_VIDA[i] # lower(strip(j[2]))

\* a JSON object whose requerimientos and equipo are arrays, null or missing
ListasBienTipadas(o) ==
    /\ o.requerimientos = Ausente \/ o.requerimientos[1] \in {"array", "null"}
    /\ o.equipo = Ausente \/ o.equipo[1] \in {"array", "null"}

\* C1: in every reachable state currentPhase is one of the 6 lifecycle
\* phases, and loading a JSON object whose phase value is invalid or missing
\* yields a record at the first phase.
C1_FaseDelCiclo ==
    /\ \E i \in 1..6 : CICLO_VIDA[i] = proyecto.fase_actual
    /\ (/\ res.op = "cargar_json"
        /\ exists(res.arg)
        /\ fs[abspath(res.arg)][1] = "objeto"
        /\ ListasBienTipadas(fs[abspath(res.arg)][2])
        /\ FaseInvalida(fs[abspath(res.arg)][2].fase_actual))
       => (res.err = "" /\ proyecto.fase_actual = CICLO_VIDA[1])

\* the part of C1 the code keeps: currentPhase is always a lifecycle phase
FaseEnCiclo == \E i \in 1..6 : CICLO_VIDA[i] = proyecto.fase_actual

\* C7: loading the file an export of the record wrote yields a record with
\* the same name, description, requirements, phase, team and dates.
C7_IdaYVuelta ==
    [][(/\ res'.op = "cargar_json"
        /\ res'.err = ""
        /\ fs[abspath(res'.arg)] = <<"objeto", data(proyecto)>>)
       => proyecto' = proyecto]_vars

C7_Testigo ==
    /\ res.op = "cargar_json"
    /\ res.err = ""
    /\ fs[abspath(res.arg)] = <<"objeto", data(proyecto)>>
    /\ proyecto.requerimientos = <<Pago, Login>>
    /\ proyecto.fase_actual = CICLO_VIDA[3]
    /\ proyecto.fecha_inicio = Inicio
    /\ proyecto.fecha_fin_estimada = None

\* the path an export resolves for the argument ruta
Destino(ruta) ==
    abspath(IF ruta = None THEN sub(strip(proyecto.nombre)) \o Sufijo ELSE ruta)

\* C8: an export with overwrite false fails with FileExistsError
\* (AlreadyExists) when a file exists at the resolved path, and leaves that
\* file and the record unchanged; with overwrite true, or with no file at the
\* path, it writes the file and returns its absolute path.
C8_Exportar ==
    [][res'.op = "exportar_json" =>
          LET ruta         == res'.arg[1]
              sobrescribir == res'.arg[2]
          IN  IF ~sobrescribir /\ Destino(ruta) \in DOMAIN fs
              THEN /\ res'.err = "FileExistsError"
                   /\ fs' = fs
                   /\ proyecto' = proyecto
              ELSE /\ res'.err = ""
                   /\ Destino(ruta) \in DOMAIN fs'
                   /\ fs'[Destino(ruta)] = <<"objeto", data(proyecto)>>
                   /\ \A r \in DOMAIN fs \ {Destino(ruta)} :
                          r \in DOMAIN fs' /\ fs'[r] = fs[r]
                   /\ res'.ret = Destino(ruta)
                   /\ res'.ret[1] = "/"
                   /\ proyecto' = proyecto]_vars

C8_Testigo ==
    /\ res.op = "exportar_json"
    /\ res.arg = <<None, FALSE>>
    /\ res.err = "FileExistsError"
    /\ fs[RutaAbsoluta] # <<"objeto", data(proyecto)>>

\* C9: a load fails with FileNotFoundError (NotFound) when no file exists
\* at the path and with JSONDecodeError (MalformedInput) when the content is
\* not valid JSON; in both cases no record is produced and the file system
\* is unchanged.
C9_ErroresDeCarga ==
    [][res'.op = "cargar_json" =>
          /\ abspath(res'.arg) \notin DOMAIN fs =>
                (res'.err = "FileNotFoundError" /\ proyecto' = proyecto /\ fs' = fs)
          /\ (abspath(res'.arg) \in DOMAIN fs /\ fs[abspath(res'.arg)] = <<"texto">>) =>
                (res'.err = "JSONDecodeError" /\ proyecto' = proyecto /\ fs' = fs)]_vars

C9_Testigo ==
    /\ res.op = "cargar_json"
    /\ res.err = "JSONDecodeError"
    /\ fs[abspath(res.arg)] = <<"texto">>
    /\ proyecto.requerimientos # <<>>

\* the record is at the last phase and its progress is 100
Completado == proyecto.fase_actual = Ultima /\ progreso_de(proyecto) = 100

\* C10: over the operations on one record the lifecycle index never
\* decreases and changes only by +1 in an AdvancePhase step; the last phase
\* is absorbing; AddRequirement never changes the phase and AdvancePhase
\* changes nothing but the phase; and with AdvancePhase called again and
\* again the record reaches the last phase, where the progress is 100.
C10_CicloDeVida ==
    /\ [][/\ Posicion(proyecto'.fase_actual) >= Posicion(proyecto.fase_actual)
          /\ proyecto'.fase_actual # proyecto.fase_actual =>
                /\ res'.op = "avanzar_fase"
                /\ Posicion(proyecto'.fase_actual) = Posicion(proyecto.fase_actual) + 1
          /\ proyecto.fase_actual = Ultima => proyecto'.fase_actual = Ultima
          /\ res'.op = "agregar_requerimiento" =>
                proyecto'.fase_actual = proyecto.fase_actual
          /\ res'.op = "avanzar_fase" =>
                proyecto' = [proyecto EXCEPT !.fase_actual = proyecto'.fase_actual]]_vars
    /\ <>Completado

C10_Testigo ==
    /\ res.op = "resumen_progreso"
    /\ res.ret = <<100>>
    /\ proyecto.fase_actual = Ultima
    /\ proyecto.requerimientos # <<>>
    /\ DOMAIN fs # {}

====
